---------------------------- MODULE Spec2Model ----------------------------
(***************************************************************************)
(* Model of src/main.c: a dice-sum simulator.  main reads a configuration, *)
(* allocates two arrays indexed by sum, fills the expected counts from the *)
(* recursive combinatorial count, fills the observed counts by simulation, *)
(* computes a Chi-Squared statistic, reports, and frees the arrays.        *)
(*                                                                         *)
(* Numbers.  The C doubles (expected counts, the statistic) are modelled   *)
(* as exact rationals <<numerator, denominator>> with a positive           *)
(* denominator: rounding, underflow and the loss of integer precision      *)
(* above 2^53 are outside this model.  The long long counts are modelled   *)
(* as unbounded integers; where their 64-bit width is the question, they   *)
(* are compared with LLONG_MAX as multi-limb decimal numbers.              *)
(***************************************************************************)
EXTENDS Integers, Sequences, FiniteSets, TLC

VARIABLES
    pc,                     \* position in main, or the specification's phase
    num_dice, num_sides, num_trials,        \* main's locals (lines 20-21)
    observed_ptr, expected_ptr,             \* the two calloc results (31-32)
    observed_counts, expected_counts,       \* the arrays' contents
    sum,                    \* loop variable of lines 99 and 125
    i, j, current_sum,      \* run_simulation's locals (110-113)
    chi_squared_statistic,  \* perform_chi_squared_test's accumulator (124)
    skipped_sums,           \* sums at which the guard of line 126 was false
    out_of_bounds,          \* a write outside the observed_counts buffer
    min_sum, max_sum,       \* main's locals (28-29)
    dice_remaining, target_sum, result,     \* one call of the count function
    stack, retval,          \* the call stack of the recursion, its result
    outcomes_wide           \* sides^dice of line 97, exact, as limbs

vars == <<pc, num_dice, num_sides, num_trials, observed_ptr, expected_ptr,
          observed_counts, expected_counts, sum, i, j, current_sum,
          chi_squared_statistic, skipped_sums, out_of_bounds, min_sum,
          max_sum, dice_remaining, target_sum, result, stack, retval,
          outcomes_wide>>

----------------------------------------------------------------------------
(* Bounds of the model. *)

\* main pipeline
MaxDice == 2
MaxSides == 3
MaxTrials == 3
MaxRand == 3
\* direct calls of the count function
MaxArgDice == 3
MaxArgSides == 5
ArgMargin == 2
\* perform_chi_squared_test on arbitrary distributions
MaxChiLen == 2
MaxChiObs == 2
\* the recursion run call by call
MaxRecDice == 3
MaxRecSides == 4

(* Program constants: the caps of get_simulation_parameters, lines 60 and  *)
(* 65.                                                                     *)
DiceCapLoose == 10 + 1
DiceCap == 10
SidesCap == 100

----------------------------------------------------------------------------
(* count_sum_combinations_recursive, lines 76-89. *)

\* line 77: the pruning test
UnreachableOffByOne(dr, ts, ns) == ts <= dr \/ ts > dr * ns
Unreachable(dr, ts, ns) == ts < dr \/ ts > dr * ns

\* line 81: the value returned with no dice left
BaseCount(ts) == IF ts = 0 THEN 1 ELSE 0

\* line 85: the last value of i for which the loop body runs
LastFaceShort(ns) == ns - 1
LastFace(ns) == ns

\* line 86: the arguments of the nested call
NestedDiceSame(dr) == dr
NestedDice(dr) == dr - 1

RECURSIVE count_sum_combinations_recursive(_, _, _)
RECURSIVE AccumulateFaces(_, _, _, _)

\* lines 84-88: total_combinations over i, i+1, ..., num_sides
AccumulateFaces(dr, ts, ns, face) ==
    IF face > LastFace(ns)
    THEN 0
    ELSE count_sum_combinations_recursive(NestedDice(dr), ts - face, ns)
         + AccumulateFaces(dr, ts, ns, face + 1)

count_sum_combinations_recursive(dr, ts, ns) ==
    IF Unreachable(dr, ts, ns) THEN 0
    ELSE IF dr = 0 THEN BaseCount(ts)
    ELSE AccumulateFaces(dr, ts, ns, 1)

----------------------------------------------------------------------------
(* Arithmetic helpers. *)

RECURSIVE Pow(_, _)
Pow(b, e) == IF e = 0 THEN 1 ELSE b * Pow(b, e - 1)

RECURSIVE SumOver(_, _)
\* the sum of f[k] for k in the finite set S of integers
SumOver(f, S) ==
    IF S = {} THEN 0
    ELSE LET k == CHOOSE x \in S : TRUE IN f[k] + SumOver(f, S \ {k})

\* the value of a variable a specification does not use
Dummy == <<>>
\* the value of an integer variable before its first assignment
NoValue == 0 - 1

----------------------------------------------------------------------------
(* The count function applied to arguments drawn from bounded sets:       *)
(* dice_remaining >= 0, any target_sum (negative and beyond the range      *)
(* included), num_sides >= 2.                                              *)

ArgTargets == (0 - ArgMargin) .. (MaxArgDice * MaxArgSides + ArgMargin)

InitCount ==
    /\ pc = "count_call"
    /\ dice_remaining \in 0 .. MaxArgDice
    /\ target_sum \in ArgTargets
    /\ num_sides \in 2 .. MaxArgSides
    /\ result = Dummy
    /\ num_dice = Dummy /\ num_trials = Dummy
    /\ observed_ptr = Dummy /\ expected_ptr = Dummy
    /\ observed_counts = Dummy /\ expected_counts = Dummy
    /\ sum = Dummy /\ i = Dummy /\ j = Dummy /\ current_sum = Dummy
    /\ chi_squared_statistic = Dummy /\ skipped_sums = Dummy
    /\ out_of_bounds = Dummy /\ min_sum = Dummy /\ max_sum = Dummy
    /\ stack = Dummy /\ retval = Dummy /\ outcomes_wide = Dummy

\* one call, lines 76-89, run to its return
CountCall ==
    /\ pc = "count_call"
    /\ result' = count_sum_combinations_recursive(dice_remaining, target_sum,
                                                  num_sides)
    /\ pc' = "count_done"
    /\ UNCHANGED <<num_dice, num_sides, num_trials, observed_ptr,
                   expected_ptr, observed_counts, expected_counts, sum, i, j,
                   current_sum, chi_squared_statistic, skipped_sums,
                   out_of_bounds, min_sum, max_sum, dice_remaining,
                   target_sum, stack, retval, outcomes_wide>>

NextCount == CountCall

SpecCount == InitCount /\ [][NextCount]_vars

\* the number of tuples of n face values, each in 1..ns, whose sum is ts
TupleCount(n, ts, ns) ==
    Cardinality({f \in [1 .. n -> 1 .. ns] : SumOver(f, 1 .. n) = ts})

\* C1: the value returned is exactly the number of tuples of dice_remaining
\* face values in 1..num_sides that sum to target_sum; it is 0 whenever
\* target_sum < dice_remaining or target_sum > dice_remaining * num_sides;
\* and the known values hold: two six-sided dice make 7 in 6 ways, one makes
\* 3 in 1 way, three make 3 in 1 way, two make 13 in 0 ways.
C1_ExactCount ==
    /\ pc = "count_done" =>
          /\ result = TupleCount(dice_remaining, target_sum, num_sides)
          /\ (target_sum < dice_remaining
                \/ target_sum > dice_remaining * num_sides) => result = 0
    /\ count_sum_combinations_recursive(2, 7, 6) = 6
    /\ count_sum_combinations_recursive(1, 3, 6) = 1
    /\ count_sum_combinations_recursive(3, 3, 6) = 1
    /\ count_sum_combinations_recursive(2, 13, 6) = 0

\* a call that returned a count of at least 2 with at least 2 dice
C1_Witness ==
    pc = "count_done" /\ dice_remaining >= 2 /\ result >= 2

\* C4: for a sum in [dice, dice * sides], the count of the sum equals the
\* count of its reflection dice * (sides + 1) - sum.
C4_Reflection ==
    (pc = "count_done" /\ dice_remaining <= target_sum
        /\ target_sum <= dice_remaining * num_sides)
    => result = count_sum_combinations_recursive(
                    dice_remaining,
                    dice_remaining * (num_sides + 1) - target_sum,
                    num_sides)

\* a call for an in-range sum that is not its own reflection
C4_Witness ==
    /\ pc = "count_done" /\ dice_remaining >= 2
    /\ dice_remaining <= target_sum
    /\ target_sum <= dice_remaining * num_sides
    /\ dice_remaining * (num_sides + 1) - target_sum # target_sum
    /\ result >= 2

----------------------------------------------------------------------------
(* Exact rationals <<n, d>>, d > 0, in lowest terms: the model of double.  *)

RECURSIVE Gcd(_, _)
Gcd(a, b) == IF b = 0 THEN a ELSE Gcd(b, a % b)

Abs(a) == IF a < 0 THEN 0 - a ELSE a

\* n / d in lowest terms, for d # 0
Rat(n, d) ==
    LET g == Gcd(Abs(n), Abs(d))
        sg == IF d < 0 THEN 0 - 1 ELSE 1
    IN <<(sg * n) \div g, (sg * d) \div g>>

RatOfInt(n) == <<n, 1>>
\* sums and products are reduced before they are multiplied out, to keep
\* the intermediate integers small
RatAdd(a, b) ==
    LET g == Gcd(a[2], b[2])
    IN Rat(a[1] * (b[2] \div g) + b[1] * (a[2] \div g),
           (a[2] \div g) * b[2])
RatNeg(a) == <<0 - a[1], a[2]>>
RatSub(a, b) == RatAdd(a, RatNeg(b))
RatMul(a, b) ==
    LET x == Rat(a[1], b[2])
        y == Rat(b[1], a[2])
    IN Rat(x[1] * y[1], x[2] * y[2])
\* a / b, for b # 0
RatDiv(a, b) == RatMul(a, Rat(b[2], b[1]))
RatPositive(a) == a[1] > 0

RECURSIVE RatSumOver(_, _)
\* the sum of the rationals f[k] for k in the finite set S
RatSumOver(f, S) ==
    IF S = {} THEN RatOfInt(0)
    ELSE LET k == CHOOSE x \in S : TRUE
         IN RatAdd(f[k], RatSumOver(f, S \ {k}))

----------------------------------------------------------------------------
(* main, lines 17-50, and the functions it calls. *)

Min(a, b) == IF a < b THEN a ELSE b

Init ==
    /\ pc = "start"
    /\ num_dice = Dummy /\ num_sides = Dummy /\ num_trials = Dummy
    /\ observed_ptr = "unset" /\ expected_ptr = "unset"
    /\ observed_counts = Dummy /\ expected_counts = Dummy
    /\ sum = Dummy /\ i = Dummy /\ j = Dummy /\ current_sum = Dummy
    /\ chi_squared_statistic = Dummy /\ skipped_sums = {}
    /\ out_of_bounds = FALSE /\ min_sum = Dummy /\ max_sum = Dummy
    /\ dice_remaining = Dummy /\ target_sum = Dummy /\ result = Dummy
    /\ stack = Dummy /\ retval = Dummy /\ outcomes_wide = Dummy

\* lines 27, 55-71: the three prompts repeat until the value is in range,
\* so the values that leave the function are the in-range ones
get_simulation_parameters ==
    /\ pc = "start"
    /\ num_dice' \in 1 .. Min(MaxDice, DiceCap)
    /\ num_sides' \in 2 .. Min(MaxSides, SidesCap)
    /\ num_trials' \in 1 .. MaxTrials
    /\ pc' = "alloc"
    /\ UNCHANGED <<observed_ptr, expected_ptr, observed_counts,
                   expected_counts, sum, i, j, current_sum,
                   chi_squared_statistic, skipped_sums, out_of_bounds,
                   min_sum, max_sum, dice_remaining, target_sum, result,
                   stack, retval, outcomes_wide>>

\* lines 28-32: each calloc returns a zeroed buffer of max_sum + 1 slots, or
\* NULL
Allocate ==
    /\ pc = "alloc"
    /\ max_sum' = num_dice * num_sides
    /\ min_sum' = num_dice
    /\ \E got_observed \in BOOLEAN, got_expected \in BOOLEAN :
          /\ observed_ptr' = IF got_observed THEN "live" ELSE "null"
          /\ observed_counts' = IF got_observed
                                THEN [k \in 0 .. max_sum' |-> 0]
                                ELSE Dummy
          /\ expected_ptr' = IF got_expected THEN "live" ELSE "null"
          /\ expected_counts' = IF got_expected
                                THEN [k \in 0 .. max_sum' |-> RatOfInt(0)]
                                ELSE Dummy
    /\ pc' = "check"
    /\ UNCHANGED <<num_dice, num_sides, num_trials, sum, i, j, current_sum,
                   chi_squared_statistic, skipped_sums, out_of_bounds,
                   dice_remaining, target_sum, result, stack, retval,
                   outcomes_wide>>

\* lines 34-37: return 1 when either pointer is NULL; nothing is freed
AllocationFailed ==
    /\ pc = "check"
    /\ observed_ptr = "null" \/ expected_ptr = "null"
    /\ pc' = "exit_failure"
    /\ UNCHANGED <<num_dice, num_sides, num_trials, observed_ptr,
                   expected_ptr, observed_counts, expected_counts, sum, i, j,
                   current_sum, chi_squared_statistic, skipped_sums,
                   out_of_bounds, min_sum, max_sum, dice_remaining,
                   target_sum, result, stack, retval, outcomes_wide>>

\* line 97: pow(num_sides, num_dice)
total_possible_outcomes == Pow(num_sides, num_dice)

\* lines 101-102: probability = ways / total; expected = probability * trials
ExpectedValueIntegerDivision(ways, total, trials) ==
    RatMul(RatOfInt(ways \div total), RatOfInt(trials))
ExpectedValue(ways, total, trials) ==
    RatMul(RatDiv(RatOfInt(ways), RatOfInt(total)), RatOfInt(trials))

\* lines 38-39, 94-99: both pointers are set; enter the loop over sums
BeginTheoretical ==
    /\ pc = "check"
    /\ observed_ptr = "live" /\ expected_ptr = "live"
    /\ sum' = num_dice
    /\ pc' = "calc"
    /\ UNCHANGED <<num_dice, num_sides, num_trials, observed_ptr,
                   expected_ptr, observed_counts, expected_counts, i, j,
                   current_sum, chi_squared_statistic, skipped_sums,
                   out_of_bounds, min_sum, max_sum, dice_remaining,
                   target_sum, result, stack, retval, outcomes_wide>>

\* lines 99-103: one iteration of calculate_theoretical_counts' loop
calculate_theoretical_counts ==
    /\ pc = "calc"
    /\ sum <= num_dice * num_sides
    /\ LET ways_to_make_sum ==
               count_sum_combinations_recursive(num_dice, sum, num_sides)
       IN expected_counts' =
              [expected_counts EXCEPT ![sum] =
                  ExpectedValue(ways_to_make_sum, total_possible_outcomes,
                                num_trials)]
    /\ sum' = sum + 1
    /\ UNCHANGED <<pc, num_dice, num_sides, num_trials, observed_ptr,
                   expected_ptr, observed_counts, i, j, current_sum,
                   chi_squared_statistic, skipped_sums, out_of_bounds,
                   min_sum, max_sum, dice_remaining, target_sum, result,
                   stack, retval, outcomes_wide>>

\* lines 99 (loop exit), 41-42, 110-111: run_simulation starts
BeginSimulation ==
    /\ pc = "calc"
    /\ sum > num_dice * num_sides
    /\ i' = 0 /\ j' = 0 /\ current_sum' = 0
    /\ pc' = "simulate"
    /\ UNCHANGED <<num_dice, num_sides, num_trials, observed_ptr,
                   expected_ptr, observed_counts, expected_counts, sum,
                   chi_squared_statistic, skipped_sums, out_of_bounds,
                   min_sum, max_sum, dice_remaining, target_sum, result,
                   stack, retval, outcomes_wide>>

\* line 113: the face drawn from one value r >= 0 of rand()
DieFaceNoShift(r, ns) == r % ns
DieFace(r, ns) == (r % ns) + 1

\* lines 112-114: one die of the current trial
RollDie ==
    /\ pc = "simulate"
    /\ i < num_trials
    /\ j < num_dice
    /\ \E r \in 0 .. MaxRand :
          current_sum' = current_sum + DieFace(r, num_sides)
    /\ j' = j + 1
    /\ UNCHANGED <<pc, num_dice, num_sides, num_trials, observed_ptr,
                   expected_ptr, observed_counts, expected_counts, sum, i,
                   chi_squared_statistic, skipped_sums, out_of_bounds,
                   min_sum, max_sum, dice_remaining, target_sum, result,
                   stack, retval, outcomes_wide>>

\* line 115: the update of one entry
IncrementOverwrite(c) == 1
Increment(c) == c + 1

\* lines 115, 110-111: the trial's sum is counted and the next trial starts.
\* A write outside the buffer is undefined behaviour: it is recorded in
\* out_of_bounds and nothing more is said about the state it leaves.
RecordTrial ==
    /\ pc = "simulate"
    /\ i < num_trials
    /\ j = num_dice
    /\ IF current_sum \in DOMAIN observed_counts
       THEN /\ observed_counts' =
                   [observed_counts EXCEPT
                       ![current_sum] = Increment(observed_counts[current_sum])]
            /\ UNCHANGED out_of_bounds
       ELSE /\ out_of_bounds' = TRUE
            /\ UNCHANGED observed_counts
    /\ i' = i + 1 /\ j' = 0 /\ current_sum' = 0
    /\ UNCHANGED <<pc, num_dice, num_sides, num_trials, observed_ptr,
                   expected_ptr, expected_counts, sum,
                   chi_squared_statistic, skipped_sums,
                   min_sum, max_sum, dice_remaining, target_sum, result,
                   stack, retval, outcomes_wide>>

\* lines 110 (loop exit), 44, 123-125: perform_chi_squared_test starts
BeginChiSquared ==
    /\ pc = "simulate"
    /\ i >= num_trials
    /\ sum' = min_sum
    /\ chi_squared_statistic' = RatOfInt(0)
    /\ skipped_sums' = {}
    /\ pc' = "chi"
    /\ UNCHANGED <<num_dice, num_sides, num_trials, observed_ptr,
                   expected_ptr, observed_counts, expected_counts, i, j,
                   current_sum, out_of_bounds, min_sum, max_sum,
                   dice_remaining, target_sum, result, stack, retval,
                   outcomes_wide>>

\* line 126: the guard
ExpectedNonZero(e) == e[1] # 0
ExpectedPositive(e) == RatPositive(e)

\* lines 127-128: the term one sum adds
ChiTerm(observed, expected) ==
    LET difference == RatSub(RatOfInt(observed), expected)
    IN RatDiv(RatMul(difference, difference), expected)

\* lines 125-130: one iteration of perform_chi_squared_test's loop
perform_chi_squared_test ==
    /\ pc = "chi"
    /\ sum <= max_sum
    /\ IF ExpectedPositive(expected_counts[sum])
       THEN /\ chi_squared_statistic' =
                   RatAdd(chi_squared_statistic,
                          ChiTerm(observed_counts[sum], expected_counts[sum]))
            /\ UNCHANGED skipped_sums
       ELSE /\ skipped_sums' = skipped_sums \cup {sum}
            /\ UNCHANGED chi_squared_statistic
    /\ sum' = sum + 1
    /\ UNCHANGED <<pc, num_dice, num_sides, num_trials, observed_ptr,
                   expected_ptr, observed_counts, expected_counts, i, j,
                   current_sum, out_of_bounds, min_sum, max_sum,
                   dice_remaining, target_sum, result, stack, retval,
                   outcomes_wide>>

\* lines 125 (loop exit), 131: the statistic is returned
ReturnChiSquared ==
    /\ pc = "chi"
    /\ sum > max_sum
    /\ pc' = "report"
    /\ UNCHANGED <<num_dice, num_sides, num_trials, observed_ptr,
                   expected_ptr, observed_counts, expected_counts, sum, i, j,
                   current_sum, chi_squared_statistic, skipped_sums,
                   out_of_bounds, min_sum, max_sum, dice_remaining,
                   target_sum, result, stack, retval, outcomes_wide>>

\* lines 45-49: the report reads the arrays; both are freed; return 0
ReportAndRelease ==
    /\ pc = "report"
    /\ observed_ptr' = "freed"
    /\ expected_ptr' = "freed"
    /\ pc' = "exit_success"
    /\ UNCHANGED <<num_dice, num_sides, num_trials, observed_counts,
                   expected_counts, sum, i, j, current_sum,
                   chi_squared_statistic, skipped_sums, out_of_bounds,
                   min_sum, max_sum, dice_remaining, target_sum, result,
                   stack, retval, outcomes_wide>>

Next ==
    \/ get_simulation_parameters
    \/ Allocate
    \/ AllocationFailed
    \/ BeginTheoretical
    \/ calculate_theoretical_counts
    \/ BeginSimulation
    \/ RollDie
    \/ RecordTrial
    \/ BeginChiSquared
    \/ perform_chi_squared_test
    \/ ReturnChiSquared
    \/ ReportAndRelease

Spec == Init /\ [][Next]_vars

----------------------------------------------------------------------------
(* Claims about the run of main. *)

SumRange == min_sum .. max_sum

\* the positions of main after calculate_theoretical_counts returned
TheoreticalFilled == pc \in {"simulate", "chi", "report", "exit_success"}

\* the positions of main after run_simulation returned
SimulationFinished == pc \in {"chi", "report", "exit_success"}

\* C2: after k completed trials the observed counts over [min_sum, max_sum]
\* total k, and when run_simulation has finished they total num_trials.
C2_ObservedTotal ==
    /\ pc = "simulate" => SumOver(observed_counts, SumRange) = i
    /\ SimulationFinished => SumOver(observed_counts, SumRange) = num_trials

\* a finished simulation of at least two trials of which two hit one sum
C2_Witness ==
    /\ SimulationFinished
    /\ num_trials >= 2
    /\ \E k \in SumRange : observed_counts[k] >= 2

\* C3: the expected counts over [min_sum, max_sum] total num_trials, and
\* the combinatorial counts over that range total sides^dice.
C3_ExpectedTotal ==
    TheoreticalFilled =>
        /\ RatSumOver(expected_counts, SumRange) = RatOfInt(num_trials)
        /\ SumOver([k \in SumRange |->
                       count_sum_combinations_recursive(num_dice, k,
                                                        num_sides)],
                   SumRange) = Pow(num_sides, num_dice)

\* a filled expected distribution with a fractional entry, for two dice and
\* more than one trial
C3_Witness ==
    /\ TheoreticalFilled
    /\ num_dice >= 2 /\ num_trials >= 2
    /\ \E k \in SumRange : expected_counts[k][2] > 1

\* C6 (as claimed): at every exit of main no buffer that calloc returned is
\* still unreleased.
C6_ReleasedOnEveryExit ==
    pc \in {"exit_failure", "exit_success"} =>
        observed_ptr # "live" /\ expected_ptr # "live"

\* C8: no write falls outside the observed_counts buffer, and every entry
\* below min_sum stays zero: only entries in [min_sum, max_sum] are
\* incremented.
C8_WritesInRange ==
    /\ out_of_bounds = FALSE
    /\ pc \in {"simulate", "chi", "report", "exit_success"} =>
          /\ DOMAIN observed_counts = 0 .. max_sum
          /\ \A k \in DOMAIN observed_counts :
                 observed_counts[k] # 0 => k \in SumRange
          /\ \A k \in 0 .. (min_sum - 1) : observed_counts[k] = 0
          /\ pc = "simulate" => current_sum <= max_sum

\* a finished simulation that counted both the smallest and the largest sum
C8_Witness ==
    /\ SimulationFinished
    /\ observed_counts[min_sum] >= 1
    /\ observed_counts[max_sum] >= 1

\* C9: every sum in [min_sum, max_sum] has a positive combinatorial count
\* and a positive expected count, and the guard of perform_chi_squared_test
\* skips no sum.
C9_ExpectedPositive ==
    /\ TheoreticalFilled =>
          \A k \in SumRange :
              /\ count_sum_combinations_recursive(num_dice, k, num_sides) > 0
              /\ RatPositive(expected_counts[k])
    /\ skipped_sums = {}

\* the Chi-Squared loop has passed every sum of a range of several sums
C9_Witness ==
    pc = "report" /\ sum > max_sum /\ max_sum - min_sum >= 4

----------------------------------------------------------------------------
(* perform_chi_squared_test applied to arbitrary distributions over one    *)
(* range: observed counts >= 0, expected values negative, zero, fractional *)
(* and whole.                                                              *)

ChiExpectedValues == {Rat(0 - 1, 1), Rat(0, 1), Rat(1, 2), Rat(1, 1), Rat(2, 1)}

InitChi ==
    /\ pc = "chi"
    /\ min_sum \in 1 .. 2
    /\ max_sum \in min_sum .. (min_sum + MaxChiLen - 1)
    /\ observed_counts \in [min_sum .. max_sum -> 0 .. MaxChiObs]
    /\ expected_counts \in [min_sum .. max_sum -> ChiExpectedValues]
    /\ sum = min_sum
    /\ chi_squared_statistic = RatOfInt(0)
    /\ skipped_sums = {}
    /\ num_dice = Dummy /\ num_sides = Dummy /\ num_trials = Dummy
    /\ observed_ptr = "live" /\ expected_ptr = "live"
    /\ i = Dummy /\ j = Dummy /\ current_sum = Dummy
    /\ out_of_bounds = FALSE
    /\ dice_remaining = Dummy /\ target_sum = Dummy /\ result = Dummy
    /\ stack = Dummy /\ retval = Dummy /\ outcomes_wide = Dummy

NextChi ==
    \/ perform_chi_squared_test
    \/ ReturnChiSquared

SpecChi == InitChi /\ [][NextChi]_vars

\* (o - n/d)^2 / (n/d), for n/d > 0, over one denominator
ReferenceTerm(o, e) ==
    Rat((o * e[2] - e[1]) * (o * e[2] - e[1]), e[2] * e[1])

\* C5: the statistic is never negative; when returned it is the sum of the
\* terms of the sums with a positive expected value alone (the others add
\* nothing), and it is 0 exactly when observed equals expected at every sum
\* with a positive expected value.
C5_ChiSquared ==
    /\ pc \in {"chi", "report"} => chi_squared_statistic[1] >= 0
    /\ pc = "report" =>
          /\ skipped_sums =
                 {k \in SumRange : ~RatPositive(expected_counts[k])}
          /\ chi_squared_statistic =
                 RatSumOver([k \in SumRange |->
                                IF RatPositive(expected_counts[k])
                                THEN ReferenceTerm(observed_counts[k],
                                                   expected_counts[k])
                                ELSE RatOfInt(0)],
                            SumRange)
          /\ (chi_squared_statistic = RatOfInt(0))
                 <=> (\A k \in SumRange :
                          RatPositive(expected_counts[k])
                          => RatOfInt(observed_counts[k]) = expected_counts[k])

\* a returned statistic of 0 over a range with a sum whose expected value is
\* negative and differs from the observed count, and a sum whose expected
\* value is positive
C5_Witness ==
    /\ pc = "report"
    /\ chi_squared_statistic = RatOfInt(0)
    /\ \E k \in SumRange :
           /\ expected_counts[k][1] < 0
           /\ observed_counts[k] > 0
    /\ \E k \in SumRange : RatPositive(expected_counts[k])

----------------------------------------------------------------------------
(* count_sum_combinations_recursive run call by call.  A frame holds one   *)
(* activation: its arguments, whether it is still before line 84 ("entry") *)
(* or in the loop of lines 85-87 ("loop"), and its locals i and            *)
(* total_combinations.  num_sides is the same in every activation.         *)

Frame(dr, ts) ==
    [dice_remaining |-> dr, target_sum |-> ts, at |-> "entry",
     i |-> 0, total_combinations |-> 0]

Top == stack[Len(stack)]

\* return v from the top activation: the caller's line 86 adds it to its
\* total and its loop moves on; the outermost return ends the run
ReturnValue(v) ==
    IF Len(stack) = 1
    THEN /\ stack' = <<>>
         /\ retval' = v
         /\ pc' = "rec_done"
    ELSE /\ stack' =
               [k \in 1 .. (Len(stack) - 1) |->
                   IF k = Len(stack) - 1
                   THEN [stack[k] EXCEPT
                            !.total_combinations = @ + v, !.i = @ + 1]
                   ELSE stack[k]]
         /\ UNCHANGED <<retval, pc>>

RecUnchanged ==
    UNCHANGED <<num_dice, num_sides, num_trials, observed_ptr, expected_ptr,
                observed_counts, expected_counts, sum, i, j, current_sum,
                chi_squared_statistic, skipped_sums, out_of_bounds, min_sum,
                max_sum, dice_remaining, target_sum, result, outcomes_wide>>

\* lines 77-79
RecPrune ==
    /\ pc = "rec_run"
    /\ Top.at = "entry"
    /\ Unreachable(Top.dice_remaining, Top.target_sum, num_sides)
    /\ ReturnValue(0)
    /\ RecUnchanged

\* lines 80-82
RecBase ==
    /\ pc = "rec_run"
    /\ Top.at = "entry"
    /\ ~Unreachable(Top.dice_remaining, Top.target_sum, num_sides)
    /\ Top.dice_remaining = 0
    /\ ReturnValue(BaseCount(Top.target_sum))
    /\ RecUnchanged

\* lines 84-85: total_combinations = 0, i = 1
RecEnterLoop ==
    /\ pc = "rec_run"
    /\ Top.at = "entry"
    /\ ~Unreachable(Top.dice_remaining, Top.target_sum, num_sides)
    /\ Top.dice_remaining # 0
    /\ stack' = [stack EXCEPT ![Len(stack)] =
                    [@ EXCEPT !.at = "loop", !.i = 1,
                              !.total_combinations = 0]]
    /\ UNCHANGED <<pc, retval>>
    /\ RecUnchanged

\* line 86: the nested call
RecCall ==
    /\ pc = "rec_run"
    /\ Top.at = "loop"
    /\ Top.i <= LastFace(num_sides)
    /\ stack' = Append(stack, Frame(NestedDice(Top.dice_remaining),
                                    Top.target_sum - Top.i))
    /\ UNCHANGED <<pc, retval>>
    /\ RecUnchanged

\* lines 85 (loop exit), 88
RecReturnTotal ==
    /\ pc = "rec_run"
    /\ Top.at = "loop"
    /\ Top.i > LastFace(num_sides)
    /\ ReturnValue(Top.total_combinations)
    /\ RecUnchanged

RecStep ==
    \/ RecPrune
    \/ RecBase
    \/ RecEnterLoop
    \/ RecCall
    \/ RecReturnTotal

RecTargets == (0 - ArgMargin) .. (MaxRecDice * MaxRecSides + ArgMargin)

\* one outermost call with dice_remaining >= 0, any target_sum, sides >= 2
InitRec ==
    /\ pc = "rec_run"
    /\ dice_remaining \in 0 .. MaxRecDice
    /\ target_sum \in RecTargets
    /\ num_sides \in 2 .. MaxRecSides
    /\ stack = <<Frame(dice_remaining, target_sum)>>
    /\ retval = NoValue /\ result = Dummy
    /\ num_dice = Dummy /\ num_trials = Dummy
    /\ observed_ptr = Dummy /\ expected_ptr = Dummy
    /\ observed_counts = Dummy /\ expected_counts = Dummy
    /\ sum = Dummy /\ i = Dummy /\ j = Dummy /\ current_sum = Dummy
    /\ chi_squared_statistic = Dummy /\ skipped_sums = Dummy
    /\ out_of_bounds = Dummy /\ min_sum = Dummy /\ max_sum = Dummy
    /\ outcomes_wide = Dummy

NextRec == RecStep

SpecRec == InitRec /\ [][NextRec]_vars

\* a started call runs on: the program is sequential and nothing suspends it
SpecRecFair == SpecRec /\ WF_vars(NextRec)

\* each nested activation has one die less than its caller and none has a
\* negative number of dice; the nesting depth is at most the outermost
\* dice_remaining
NestingBounded ==
    pc = "rec_run" =>
        /\ Len(stack) - 1 <= dice_remaining
        /\ \A k \in 1 .. Len(stack) : stack[k].dice_remaining >= 0
        /\ \A k \in 2 .. Len(stack) :
               stack[k].dice_remaining = stack[k - 1].dice_remaining - 1

\* the run call by call returns what the function, evaluated at once, returns
RecAgrees ==
    pc = "rec_done" =>
        retval = count_sum_combinations_recursive(dice_remaining, target_sum,
                                                  num_sides)

\* C10: every call terminates, each nested call has dice_remaining one less
\* than its caller and never negative, and the nesting depth never exceeds
\* the initial dice_remaining.
C10_TerminatesWithinDepth ==
    /\ []NestingBounded
    /\ <>(pc = "rec_done")

\* the recursion at its deepest, below a call with at least two dice
C10_Witness ==
    /\ pc = "rec_run"
    /\ dice_remaining >= 2
    /\ Len(stack) = dice_remaining + 1
    /\ Top.dice_remaining = 0

----------------------------------------------------------------------------
(* Wide non-negative integers: sequences of limbs, least significant       *)
(* first, each in 0 .. LimbBase - 1, the last non-zero unless the number   *)
(* is 0 = <<0>>.                                                           *)

LimbBase == 1000 * 1000

RECURSIVE BigOfInt(_)
BigOfInt(n) ==
    IF n < LimbBase THEN <<n>>
    ELSE <<n % LimbBase>> \o BigOfInt(n \div LimbBase)

RECURSIVE BigMulCarry(_, _, _)
\* x * m + carry, for a limb sequence x (possibly empty) and small m, carry
BigMulCarry(x, m, carry) ==
    IF Len(x) = 0
    THEN (IF carry = 0 THEN <<>> ELSE BigOfInt(carry))
    ELSE LET t == x[1] * m + carry
         IN <<t % LimbBase>> \o BigMulCarry(Tail(x), m, t \div LimbBase)

BigMulSmall(x, m) == IF m = 0 THEN <<0>> ELSE BigMulCarry(x, m, 0)

RECURSIVE BigPow(_, _)
BigPow(b, e) == IF e = 0 THEN <<1>> ELSE BigMulSmall(BigPow(b, e - 1), b)

RECURSIVE BigLeqFrom(_, _, _)
\* x <= y for limb sequences of one length, compared from limb k downwards
BigLeqFrom(x, y, k) ==
    IF k = 0 THEN TRUE
    ELSE IF x[k] # y[k] THEN x[k] < y[k]
    ELSE BigLeqFrom(x, y, k - 1)

BigLeq(x, y) ==
    IF Len(x) # Len(y) THEN Len(x) < Len(y) ELSE BigLeqFrom(x, y, Len(x))

\* the largest long long, 2^63 - 1 = 9 223372 036854 775807
LLONG_MAX == <<775807, 36854, 223372, 9>>

FitsLongLong(x) == BigLeq(x, LLONG_MAX)

----------------------------------------------------------------------------
(* calculate_theoretical_counts over the whole range of configurations     *)
(* get_simulation_parameters lets through, with sides^dice exact; for the  *)
(* configurations within MaxRecDice and MaxRecSides each call of line 100  *)
(* is run call by call.                                                    *)

InitWidth ==
    /\ pc = "width_start"
    /\ num_dice \in 1 .. DiceCap
    /\ num_sides \in 2 .. SidesCap
    /\ stack = <<>>
    /\ retval = NoValue /\ result = NoValue
    /\ dice_remaining = NoValue /\ target_sum = NoValue
    /\ sum = NoValue /\ min_sum = NoValue /\ max_sum = NoValue
    /\ outcomes_wide = <<0>>
    /\ num_trials = Dummy
    /\ observed_ptr = Dummy /\ expected_ptr = Dummy
    /\ observed_counts = Dummy /\ expected_counts = Dummy
    /\ i = Dummy /\ j = Dummy /\ current_sum = Dummy
    /\ chi_squared_statistic = Dummy /\ skipped_sums = Dummy
    /\ out_of_bounds = Dummy

\* lines 95-99: min_sum, max_sum, total_possible_outcomes, sum = min_sum
WidthOutcomes ==
    /\ pc = "width_start"
    /\ min_sum' = num_dice
    /\ max_sum' = num_dice * num_sides
    /\ outcomes_wide' = BigPow(num_sides, num_dice)
    /\ sum' = num_dice
    /\ pc' = "width_loop"
    /\ UNCHANGED <<num_dice, num_sides, num_trials, observed_ptr,
                   expected_ptr, observed_counts, expected_counts, i, j,
                   current_sum, chi_squared_statistic, skipped_sums,
                   out_of_bounds, dice_remaining, target_sum, result, stack,
                   retval>>

\* line 100: the call for the current sum
WidthCall ==
    /\ pc = "width_loop"
    /\ sum <= max_sum
    /\ num_dice <= MaxRecDice /\ num_sides <= MaxRecSides
    /\ dice_remaining' = num_dice
    /\ target_sum' = sum
    /\ stack' = <<Frame(num_dice, sum)>>
    /\ pc' = "rec_run"
    /\ UNCHANGED <<num_dice, num_sides, num_trials, observed_ptr,
                   expected_ptr, observed_counts, expected_counts, sum, i, j,
                   current_sum, chi_squared_statistic, skipped_sums,
                   out_of_bounds, min_sum, max_sum, result, retval,
                   outcomes_wide>>

\* lines 100, 99: ways_to_make_sum takes the returned value; the next sum
WidthStore ==
    /\ pc = "rec_done"
    /\ result' = retval
    /\ sum' = sum + 1
    /\ pc' = "width_loop"
    /\ UNCHANGED <<num_dice, num_sides, num_trials, observed_ptr,
                   expected_ptr, observed_counts, expected_counts, i, j,
                   current_sum, chi_squared_statistic, skipped_sums,
                   out_of_bounds, min_sum, max_sum, dice_remaining,
                   target_sum, stack, retval, outcomes_wide>>

NextWidth ==
    \/ WidthOutcomes
    \/ WidthCall
    \/ WidthStore
    \/ RecStep

SpecWidth == InitWidth /\ [][NextWidth]_vars

\* every running total and every returned value of the run in progress
CountValues ==
    {stack[k].total_combinations : k \in 1 .. Len(stack)}
        \cup (IF retval = NoValue THEN {} ELSE {retval})
        \cup (IF result = NoValue THEN {} ELSE {result})

\* C7 (as claimed): long long holds sides^dice for every configuration let
\* through, and so every returned value and running total is within its
\* range.
C7_HoldsAllOutcomes ==
    /\ pc # "width_start" => FitsLongLong(outcomes_wide)
    /\ \A v \in CountValues : v >= 0 /\ FitsLongLong(BigOfInt(v))

\* C7 (amended): long long holds sides^(dice - 1) for every configuration
\* let through, and every returned value and every running total is at most
\* sides^(dice - 1) and not negative: none leaves the range of long long.
C7_CountsFit ==
    LET bound == BigPow(num_sides, num_dice - 1)
    IN /\ FitsLongLong(bound)
       /\ \A v \in CountValues :
              /\ v >= 0
              /\ BigLeq(BigOfInt(v), bound)
              /\ FitsLongLong(BigOfInt(v))

\* a call for two dice returned sides^(dice - 1), the bound itself
C7_Witness ==
    /\ pc = "rec_done"
    /\ num_dice = 2
    /\ retval = num_sides

============================================================================
